---- MODULE Spec2Model ----
(***************************************************************************)
(* A model of jupyter_asm_kernel/kernel.py: the directive parser           *)
(* (ASMKernel._filter_magics), the streaming subprocess wrapper            *)
(* (RealTimeSubprocess) and the compile -> link -> execute pipeline        *)
(* (ASMKernel.do_compile_link_execute under ASMKernel.do_execute).         *)
(*                                                                         *)
(* Text is a sequence of units.  A unit is either one character of its own *)
(* (a line break, a blank, ';', '%', ':', ',', '"', '\') or a word: a run  *)
(* of characters none of which is one of those (written as one TLA+        *)
(* string).  No two words of the model concatenate to a third, so equality *)
(* of unit sequences is equality of the Python strings they stand for.     *)
(***************************************************************************)
EXTENDS Integers, Sequences, FiniteSets, TLC

(***************************************************************************)
(* Python str operations used by kernel.py, on unit sequences.             *)
(***************************************************************************)

\* The line boundaries of str.splitlines that the model's alphabet holds.
LineBreaks == {"\n", "\r", "\f"}

\* str.isspace for the units of the model's alphabet.
IsSpace(c) == c \in {" ", "\t", "\n", "\r", "\f"}

RECURSIVE SplitLinesFrom(_, _, _)
SplitLinesFrom(s, i, cur) ==
    IF i > Len(s) THEN (IF cur = <<>> THEN <<>> ELSE <<cur>>)
    ELSE IF s[i] = "\r" /\ i < Len(s) /\ s[i + 1] = "\n"
         THEN <<cur>> \o SplitLinesFrom(s, i + 2, <<>>)
    ELSE IF s[i] \in LineBreaks
         THEN <<cur>> \o SplitLinesFrom(s, i + 1, <<>>)
    ELSE SplitLinesFrom(s, i + 1, Append(cur, s[i]))

\* code.splitlines(): the lines without their terminators; "\r\n" is one
\* terminator, and a terminator at the very end opens no further line.
SplitLines(s) == SplitLinesFrom(s, 1, <<>>)

\* line.startswith(';%')
StartsWithMagic(line) == Len(line) >= 2 /\ line[1] = ";" /\ line[2] = "%"

\* s[n:]
DropFirst(s, n) == IF Len(s) <= n THEN <<>> ELSE SubSeq(s, n + 1, Len(s))

RECURSIVE SplitMax(_, _, _)
\* s.split(sep, maxsplit) for a one-character separator: cut at the first
\* maxsplit separators, the rest of the text is the last part.
SplitMax(s, sep, maxsplit) ==
    IF maxsplit = 0 \/ ~(\E i \in 1..Len(s) : s[i] = sep) THEN <<s>>
    ELSE LET i == CHOOSE k \in 1..Len(s) :
                     s[k] = sep /\ \A j \in 1..(k - 1) : s[j] # sep
         IN  <<SubSeq(s, 1, i - 1)>> \o SplitMax(DropFirst(s, i), sep, maxsplit - 1)

RECURSIVE LStrip(_)
LStrip(s) == IF s # <<>> /\ IsSpace(Head(s)) THEN LStrip(Tail(s)) ELSE s

RECURSIVE RStrip(_)
RStrip(s) ==
    IF s # <<>> /\ IsSpace(s[Len(s)]) THEN RStrip(SubSeq(s, 1, Len(s) - 1)) ELSE s

\* s.strip()
Strip(s) == RStrip(LStrip(s))

\* str.lower on one unit: the upper-case words of the model's alphabet.
LowerUnit(c) ==
    CASE c = "CFLAGS" -> "cflags"
      [] c = "FALSE" -> "false"
      [] c = "YASM" -> "yasm"
      [] OTHER -> c

\* s.lower()
Lower(s) == [i \in 1..Len(s) |-> LowerUnit(s[i])]

RECURSIVE SplitWsFrom(_, _, _)
SplitWsFrom(s, i, cur) ==
    IF i > Len(s) THEN (IF cur = <<>> THEN <<>> ELSE <<cur>>)
    ELSE IF IsSpace(s[i])
         THEN (IF cur = <<>> THEN <<>> ELSE <<cur>>) \o SplitWsFrom(s, i + 1, <<>>)
    ELSE SplitWsFrom(s, i + 1, Append(cur, s[i]))

\* value.split(): the maximal runs of non-blank units, none of them empty.
SplitWs(s) == SplitWsFrom(s, 1, <<>>)

RECURSIVE QuotedEnd(_, _)
\* The regular expression's quoted alternative "(?:\\.|[^"])*" from position
\* q on, q just after the opening quote: the position after the closing
\* quote on the first path of the backtracking search that succeeds, 0 when
\* none does.  Each round tries an escape pair first, then one unit that is
\* no quote, and only then the closing quote.
QuotedEnd(s, q) ==
    IF q > Len(s) THEN 0
    ELSE IF s[q] = "\""  THEN q + 1
    ELSE LET esc == IF s[q] = "\\" /\ q + 1 <= Len(s) THEN QuotedEnd(s, q + 2) ELSE 0
         IN  IF esc # 0 THEN esc ELSE QuotedEnd(s, q + 1)

RECURSIVE ArgMatchEnd(_, _)
\* The greedy repetition (?:[^\s,"]|"...")+ tried at position p: the position
\* after the longest run of items the search takes, p itself when no item
\* matches at p.
ArgMatchEnd(s, p) ==
    IF p > Len(s) THEN p
    ELSE IF ~IsSpace(s[p]) /\ s[p] # "," /\ s[p] # "\"" THEN ArgMatchEnd(s, p + 1)
    ELSE IF s[p] = "\"" /\ QuotedEnd(s, p + 1) # 0
         THEN ArgMatchEnd(s, QuotedEnd(s, p + 1))
    ELSE p

RECURSIVE FindAllArgs(_, _)
\* re.findall(r'(?:[^\s,"]|"(?:\\.|[^"])*")+', value): the matches from left
\* to right, the search resuming after each match.
FindAllArgs(s, p) ==
    IF p > Len(s) THEN <<>>
    ELSE LET e == ArgMatchEnd(s, p)
         IN  IF e = p THEN FindAllArgs(s, p + 1)
             ELSE <<SubSeq(s, p, e - 1)>> \o FindAllArgs(s, e)

RECURSIVE LStripQuote(_)
LStripQuote(s) == IF s # <<>> /\ Head(s) = "\"" THEN LStripQuote(Tail(s)) ELSE s

RECURSIVE RStripQuote(_)
RStripQuote(s) ==
    IF s # <<>> /\ s[Len(s)] = "\"" THEN RStripQuote(SubSeq(s, 1, Len(s) - 1)) ELSE s

\* argument.strip('"')
StripQuotes(s) == RStripQuote(LStripQuote(s))

\* The matches appended as they are, quotes and all.
ArgTokensUnstripped(value) == FindAllArgs(value, 1)

\* The tokens an args directive appends, for its value.
ArgTokens(value) ==
    LET found == FindAllArgs(value, 1)
    IN  [i \in 1..Len(found) |-> StripQuotes(found[i])]

(***************************************************************************)
(* The directive parser, ASMKernel._filter_magics.                         *)
(***************************************************************************)

\* The magics dictionary as the function creates it on every call.
DefaultMagics ==
    [verbose |-> TRUE, compiler |-> <<"yasm">>, linker |-> <<"gcc">>,
     cflags |-> <<>>, ldflags |-> <<>>, args |-> <<>>]

\* One directive line with its key and value unpacked: the branch of the
\* if/elif chain the key selects; no branch, no change.
ApplyMagic(magics, key, value) ==
    IF key = <<"cflags">> THEN [magics EXCEPT !.cflags = @ \o SplitWs(value)]
    ELSE IF key = <<"ldflags">> THEN [magics EXCEPT !.ldflags = @ \o SplitWs(value)]
    ELSE IF key = <<"compiler">> /\ Strip(value) \in {<<"yasm">>, <<"nasm">>}
         THEN [magics EXCEPT !.compiler = Strip(value)]
    ELSE IF key = <<"linker">> /\ Strip(value) \in {<<"gcc">>, <<"ld">>}
         THEN [magics EXCEPT !.linker = Strip(value)]
    ELSE IF key = <<"verbose">> /\ Strip(Lower(value)) \in {<<"false">>, <<"0">>}
         THEN [magics EXCEPT !.verbose = FALSE]
    ELSE IF key = <<"args">> THEN [magics EXCEPT !.args = @ \o ArgTokens(value)]
    ELSE magics

\* A line appended to the residual code without its "\n".
ResidualLineBare(line) == line

\* actual_code += line + '\n': what a line that is no directive adds.
ResidualLine(line) == line \o <<"\n">>

\* One round of the loop over the lines.  st is the function's state:
\* raised (the unpacking of split's result failed: ValueError), magics and
\* actual_code.  A line that starts with ";%" must split into exactly two
\* parts at its first two colons.
FilterLine(st, line) ==
    IF st.raised THEN st
    ELSE IF StartsWithMagic(line)
         THEN LET parts == SplitMax(DropFirst(line, 2), ":", 2)
              IN  IF Len(parts) # 2 THEN [st EXCEPT !.raised = TRUE]
                  ELSE [st EXCEPT !.magics =
                            ApplyMagic(@, Strip(Lower(Strip(parts[1]))), parts[2])]
    ELSE [st EXCEPT !.actual_code = @ \o ResidualLine(line)]

RECURSIVE FilterLines(_, _, _)
FilterLines(st, lines, i) ==
    IF i > Len(lines) THEN st ELSE FilterLines(FilterLine(st, lines[i]), lines, i + 1)

\* _filter_magics(code) from the magics it starts with: what it returns, or
\* that it raised.
FilterMagicsFrom(start, code) ==
    FilterLines([raised |-> FALSE, magics |-> start, actual_code |-> <<>>],
                SplitLines(code), 1)

\* _filter_magics(code)
FilterMagics(code) == FilterMagicsFrom(DefaultMagics, code)

(***************************************************************************)
(* Bounds of the model.                                                    *)
(***************************************************************************)

\* Parser inputs: every text of at most MaxLen units over ShortAlphabet, and
\* every text of at most MaxLines lines drawn from LineTemplates.
MaxLen == 4
MaxLines == 3
\* Calls of _filter_magics on one text (one per submission of it).
MaxCalls == 2

ShortAlphabet == {"a", "\n", "\r", "\f", ";", "%", ":", " "}

LineTemplates ==
    { <<"a", " ", "b">>,
      <<";", "a">>,
      <<";", "%", "cflags", ":", "-f", " ", "elf64">>,
      <<";", "%", " ", "CFLAGS", " ", ":", " ", "-g", "\t">>,
      <<";", "%", "ldflags", ":", "-static", " ", "-lc">>,
      <<";", "%", "ldflags", ":">>,
      <<";", "%", "args", ":", "\"", "a", " ", "b", "\"", " ", "c">>,
      <<";", "%", "args", ":", "x", ",", "y">>,
      <<";", "%", "verbose", ":", " ", "FALSE">>,
      <<";", "%", "compiler", ":", "nasm">>,
      <<";", "%", "linker", ":", "ld", " ">>,
      <<";", "%", "linker", ":", "a">>,
      <<";", "%", "a", ":", "b">>,
      <<";", "%", "cflags">>,
      <<";", "%", "cflags", ":", "a", ":", "b">> }

\* The sequences over S of length at most n.
SeqsUpTo(S, n) == UNION {[1..k -> S] : k \in 0..n}

RECURSIVE JoinLines(_, _)
\* The lines of ls, each ended by "\n", the last one only when lastNL.
JoinLines(ls, lastNL) ==
    IF ls = <<>> THEN <<>>
    ELSE IF Len(ls) = 1 THEN Head(ls) \o (IF lastNL THEN <<"\n">> ELSE <<>>)
    ELSE Head(ls) \o <<"\n">> \o JoinLines(Tail(ls), lastNL)

TemplateTexts ==
    {JoinLines(ls, nl) : ls \in SeqsUpTo(LineTemplates, MaxLines), nl \in BOOLEAN}

\* The values of the args directives tried: at most MaxArgLen units over
\* ArgAlphabet.
MaxArgLen == 4

ArgAlphabet == {"a", " ", ",", "\"", "\\"}

ArgTexts == {<<";", "%", "args", ":">> \o v : v \in SeqsUpTo(ArgAlphabet, MaxArgLen)}

ParserInputs == SeqsUpTo(ShortAlphabet, MaxLen) \cup TemplateTexts \cup ArgTexts

\* Submissions of one session.
MaxSubmissions == 1
\* Units the subprocesses of one submission write to their stdout and stderr.
MaxUnits == 3
\* Empty lines the front end returns to one input request loop.
MaxEmptyLines == 1

\* Calls of do_shutdown in one session, and paths in the tracked list tried.
MaxShutdowns == 2
MaxFiles == 3

\* The files a workspace can hold, and all its paths.
WorkspaceFiles == {"source.asm", "source.o", "source.run"}
WorkspacePaths == WorkspaceFiles \cup {"tmpdir"}

\* RealTimeSubprocess.inputRequest, "<inputRequest>", in two units: a text
\* holds the marker where the first is directly followed by the second.
inputRequest == <<"<input", "Request>">>

\* A byte that is no valid UTF-8.
BadByte == "0xff"

\* What a subprocess may write to stdout: a text of OutScripts or a start of
\* one, a unit at a time, so that every cut of the output into reads
\* happens; and to stderr, any units of ErrUnits.
OutScripts == {<<"hello">> \o inputRequest, inputRequest \o <<"hello">>}
ErrUnits == {"warning", BadByte}
\* What the executed program's captured output may be.
RunOutputs == {<<"hello">> \o inputRequest, <<BadByte>>}
ExitCodes == {0, 1}
\* What the front end's raw_input returns.
InputLines == {<<>>, <<"42">>}

\* The texts submitted to the pipeline.
PipelineCodes ==
    { <<"a", "\n">>,
      <<";", "%", "verbose", ":", "0", "\n", ";", "%", "args", ":", "x", "\n",
        ";", "%", "a", ":", "b", "\n", "a">>,
      <<";", "%", "cflags", "\n", "a", "\n">> }

\* stream.read(4096): at most this many units at a time.
ReadSize == 4096


(***************************************************************************)
(* State.                                                                  *)
(***************************************************************************)

VARIABLES
    code,          \* the text submitted (do_execute's code)
    parsed,        \* calls of _filter_magics on code so far
    raised,        \* the last call raised ValueError
    magics,        \* the magics the last call returned
    actual_code,   \* the residual code the last call returned
    execution_count, \* Kernel.execution_count
    submissions,   \* calls of do_execute so far
    files,         \* self.files, the paths the session tracks
    shutdowns,     \* calls of do_shutdown so far
    pc,            \* where the foreground thread is in do_execute
    fpc,           \* where it is in write_contents, "none" outside
    fl,            \* write_contents' locals: size, res, and the empty lines read
    fs,            \* the paths that exist: the workspace and its files
    created,       \* this submission created a workspace
    spawns,        \* the processes this submission started, in order
    proc,          \* the streaming subprocess of the current stage
    outPipe,       \* what it wrote to stdout and no reader has read yet
    errPipe,       \* the same for stderr
    outQ,          \* _stdout_queue
    errQ,          \* _stderr_queue
    order,         \* the streams of the chunks queued, in the order they were queued
    unitsLeft,     \* units the subprocesses may still write
    sentOut,       \* all the current subprocess wrote to stdout
    sentErr,       \* and to stderr
    events,        \* what this submission sent to the front end and to stdin
    exc,           \* the exception raised in this submission, "none" without
    outcome        \* what do_execute returned

parserVars == <<code, parsed, raised, magics, actual_code>>

sessionVars == <<execution_count, submissions, files, shutdowns>>

controlVars == <<pc, fpc, fl, exc, outcome, events>>

workspaceVars == <<fs, created>>

processVars == <<spawns, proc, outPipe, errPipe, outQ, errQ, order,
                 unitsLeft, sentOut, sentErr>>

pipelineVars == <<sessionVars, controlVars, workspaceVars, processVars>>

vars == <<parserVars, pipelineVars>>

NoProc == [stage |-> "none", alive |-> FALSE, polled |-> FALSE, exit |-> 0,
           returncode |-> 0, toOut |-> <<>>]

NoOutcome == [status |-> "none", execution_count |-> 0]

NoLocals == [size |-> 0, res |-> <<>>, empties |-> 0]

\* The pipeline before the first submission.
PipelineIdle ==
    /\ execution_count = 0
    /\ submissions = 0
    /\ files = <<>>
    /\ shutdowns = 0
    /\ pc = "idle"
    /\ fpc = "none"
    /\ fl = NoLocals
    /\ fs = {}
    /\ created = FALSE
    /\ spawns = <<>>
    /\ proc = NoProc
    /\ outPipe = <<>>
    /\ errPipe = <<>>
    /\ outQ = <<>>
    /\ errQ = <<>>
    /\ order = <<>>
    /\ unitsLeft = 0
    /\ sentOut = <<>>
    /\ sentErr = <<>>
    /\ events = <<>>
    /\ exc = "none"
    /\ outcome = NoOutcome

\* A call that wrongly kept the lists of the call before it.
CallFilterMagicsCarry(c) ==
    LET r == FilterMagicsFrom(magics, c)
    IN  /\ raised' = r.raised
        /\ magics' = r.magics
        /\ actual_code' = r.actual_code

\* magics, code = self._filter_magics(code)
CallFilterMagics(c) ==
    LET r == FilterMagics(c)
    IN  /\ raised' = r.raised
        /\ magics' = r.magics
        /\ actual_code' = r.actual_code

(***************************************************************************)
(* What the front end and the subprocess's input stream receive.           *)
(***************************************************************************)

\* _write_to_stdout(contents), _write_to_stderr(contents) with subprocess
\* output
ToStdout(text) == [ch |-> "stdout", kind |-> "data", text |-> text, code |-> 0]
ToStderr(text) == [ch |-> "stderr", kind |-> "data", text |-> text, code |-> 0]
\* _write_to_stderr with one of the kernel's own messages
Message(kind, n) == [ch |-> "stderr", kind |-> kind, text |-> <<>>, code |-> n]
\* _read_from_stdin() was called
InputRequested == [ch |-> "input", kind |-> "request", text |-> <<>>, code |-> 0]
\* self.stdin.write(text) wrote text to the subprocess's input stream
StdinWrite(text) == [ch |-> "stdin", kind |-> "write", text |-> text, code |-> 0]
\* self.stdin.write(text) was called and raised
StdinWriteFailed(text) == [ch |-> "stdin", kind |-> "failed", text |-> text, code |-> 0]

\* The messages written only if magics['verbose'].
IfVerbose(m, kind, n) == IF m.verbose THEN <<Message(kind, n)>> ELSE <<>>

\* The return value of do_compile_link_execute and of do_execute.
OkOutcome == [status |-> "ok", execution_count |-> execution_count]

(***************************************************************************)
(* do_execute up to the first subprocess.                                  *)
(***************************************************************************)

\* The front end submits a text: the Kernel base class counts the execution,
\* then calls do_execute.  The history of the previous submission is dropped,
\* and so are the paths of its workspace: the next one has another name.
Submit(c) ==
    /\ pc \in {"idle", "returned"}
    /\ submissions < MaxSubmissions
    /\ shutdowns = 0
    /\ submissions' = submissions + 1
    /\ UNCHANGED <<files, shutdowns>>
    /\ execution_count' = execution_count + 1
    /\ code' = c
    /\ pc' = "filter"
    /\ fpc' = "none"
    /\ fl' = NoLocals
    /\ created' = FALSE
    /\ spawns' = <<>>
    /\ proc' = NoProc
    /\ outPipe' = <<>> /\ errPipe' = <<>>
    /\ outQ' = <<>> /\ errQ' = <<>> /\ order' = <<>>
    /\ unitsLeft' = MaxUnits
    /\ sentOut' = <<>> /\ sentErr' = <<>>
    /\ events' = <<>>
    /\ exc' = "none"
    /\ outcome' = NoOutcome
    /\ fs' = {}
    /\ UNCHANGED <<parsed, raised, magics, actual_code>>

\* A parser step that goes on after a ValueError as if the call had returned.
FilterStepLenient ==
    /\ pc = "filter"
    /\ CallFilterMagics(code)
    /\ parsed' = parsed + 1
    /\ events' = events \o IfVerbose(magics', "magics", 0)
    /\ pc' = "mkdtemp"
    /\ UNCHANGED <<code, sessionVars, fpc, fl, exc, outcome, workspaceVars, processVars>>

\* magics, code = self._filter_magics(code): a ValueError leaves
\* do_compile_link_execute before the workspace exists.
FilterStep ==
    /\ pc = "filter"
    /\ CallFilterMagics(code)
    /\ parsed' = parsed + 1
    /\ IF raised'
       THEN /\ exc' = "ValueError"
            /\ pc' = "handler"
            /\ UNCHANGED events
       ELSE /\ events' = events \o IfVerbose(magics', "magics", 0)
            /\ pc' = "mkdtemp"
            /\ UNCHANGED exc
    /\ UNCHANGED <<code, sessionVars, fpc, fl, outcome, workspaceVars, processVars>>

\* with tempfile.TemporaryDirectory() as tmpdirname: the directory is made,
\* or the call raises and there is nothing to clean up.
Mkdtemp(ok) ==
    /\ pc = "mkdtemp"
    /\ IF ok
       THEN /\ fs' = fs \cup {"tmpdir"}
            /\ created' = TRUE
            /\ events' = events \o IfVerbose(magics, "tmpdir", 0)
            /\ pc' = "write_source"
            /\ UNCHANGED exc
       ELSE /\ exc' = "OSError"
            /\ pc' = "handler"
            /\ UNCHANGED <<fs, created, events>>
    /\ UNCHANGED <<parserVars, sessionVars, fpc, fl, outcome, processVars>>

\* The with block is left with no subprocess of it running, by return or by
\* the exception e ("none" without one): TemporaryDirectory's cleanup,
\* shutil.rmtree, unlinks the files and removes the directory, and nothing
\* can make a file in between.  Without exception do_compile_link_execute
\* returns its record, and do_execute returns it.
CleanupAlone(e) ==
    /\ fs' = {}
    /\ exc' = e
    /\ IF e = "none"
       THEN pc' = "returned" /\ outcome' = [status |-> "ok", execution_count |-> execution_count]
       ELSE pc' = "handler" /\ UNCHANGED outcome

\* open(source_file_name, "w") and source_file.write(code), which may raise
\* OSError.
WriteSource(ok) ==
    /\ pc = "write_source"
    /\ IF ok
       THEN /\ fs' = fs \cup {"source.asm"}
            /\ pc' = "compile_spawn"
            /\ UNCHANGED <<exc, outcome>>
       ELSE CleanupAlone("OSError")
    /\ UNCHANGED <<parserVars, sessionVars, fpc, fl, events, created, processVars>>

(***************************************************************************)
(* RealTimeSubprocess: the subprocess, its pipes and the reader threads.   *)
(***************************************************************************)

\* The command vectors of compile_code and link_code.
CompileCommand(m) == <<m.compiler>> \o m.cflags \o <<<<"-o">>, <<"source.o">>, <<"source.asm">>>>
LinkCommand(m) == <<m.linker>> \o m.ldflags \o <<<<"-o">>, <<"source.run">>, <<"source.o">>>>

StageCommand(stage, m) == IF stage = "compile" THEN CompileCommand(m) ELSE LinkCommand(m)

\* The file a stage's tool makes.
StageOutput(stage) == IF stage = "compile" THEN "source.o" ELSE "source.run"

\* compile_code and link_code: the message if verbose, then
\* create_jupyter_subprocess(args); Popen raises when the tool cannot be
\* started.  A started process has empty queues and two readers reading;
\* script is what it is about to print.
Spawn(stage, ok, script) ==
    /\ pc = stage \o "_spawn"
    /\ events' = events \o IfVerbose(magics, stage, 0)
    /\ IF ok
       THEN /\ spawns' = Append(spawns, [stage |-> stage, cmd |-> StageCommand(stage, magics),
                                          line |-> <<>>, exited |-> FALSE, exit |-> 0,
                                          output |-> <<>>])
            /\ proc' = [stage |-> stage, alive |-> TRUE, polled |-> FALSE, exit |-> 0,
                        returncode |-> 0, toOut |-> script]
            /\ outPipe' = <<>> /\ errPipe' = <<>>
            /\ outQ' = <<>> /\ errQ' = <<>> /\ order' = <<>>
            /\ sentOut' = <<>> /\ sentErr' = <<>>
            /\ pc' = stage \o "_poll"
            /\ UNCHANGED <<exc, outcome, fs>>
       ELSE /\ CleanupAlone("OSError")
            /\ UNCHANGED <<spawns, proc, outPipe, errPipe, outQ, errQ, order, sentOut, sentErr>>
    /\ UNCHANGED <<parserVars, sessionVars, fpc, fl, created, unitsLeft>>

\* The subprocess's output and its readers are followed while the stage
\* that started the subprocess lasts: once the stage is left nobody calls
\* write_contents on it again, and what is in its pipes and queues is seen
\* by nobody.
Followed ==
    /\ proc.stage # "none"
    /\ pc \in {proc.stage \o "_poll", proc.stage \o "_flush", proc.stage \o "_final",
               proc.stage \o "_check"}

\* The foreground leaves the stage: the RealTimeSubprocess object is not used
\* again.  What its pipes, its queues and write_contents' locals hold is
\* dropped from the state, and of the subprocess only whether it still runs
\* is kept.  After the last subprocess that writes (last) nothing is left to
\* write.
StageLeft(last) ==
    /\ proc' = [NoProc EXCEPT !.stage = proc.stage, !.alive = proc.alive]
    /\ outPipe' = <<>> /\ errPipe' = <<>>
    /\ outQ' = <<>> /\ errQ' = <<>> /\ order' = <<>>
    /\ sentOut' = <<>> /\ sentErr' = <<>>
    /\ unitsLeft' = IF last THEN 0 ELSE unitsLeft
    /\ fl' = NoLocals

\* The subprocess writes the next unit of its text to its stdout.
ChildWriteOut ==
    /\ Followed /\ proc.alive
    /\ unitsLeft > 0 /\ proc.toOut # <<>>
    /\ unitsLeft' = unitsLeft - 1
    /\ proc' = [proc EXCEPT !.toOut = Tail(@)]
    /\ outPipe' = Append(outPipe, Head(proc.toOut))
    /\ sentOut' = Append(sentOut, Head(proc.toOut))
    /\ UNCHANGED <<parserVars, sessionVars, controlVars, workspaceVars, spawns,
                   errPipe, outQ, errQ, order, sentErr>>

\* The subprocess writes one unit to its stderr.
ChildWriteErr(u) ==
    /\ Followed /\ proc.alive
    /\ unitsLeft > 0
    /\ unitsLeft' = unitsLeft - 1
    /\ errPipe' = Append(errPipe, u)
    /\ sentErr' = Append(sentErr, u)
    /\ UNCHANGED <<parserVars, sessionVars, controlVars, workspaceVars, spawns, proc,
                   outPipe, outQ, errQ, order, sentOut>>

\* The subprocess exits with code c, whatever it has printed so far; its
\* ends of the pipes close.  A tool that succeeds has made its output file
\* (-o) as the last thing before it exits, which needs the directory.
ChildExit(c) ==
    /\ Followed \/ pc \in {"rmtree", "rmdir"}
    /\ proc.alive
    /\ proc' = [proc EXCEPT !.alive = FALSE, !.exit = c]
    /\ spawns' = [spawns EXCEPT ![Len(spawns)].exited = TRUE, ![Len(spawns)].exit = c]
    /\ fs' = IF c = 0 /\ "tmpdir" \in fs THEN fs \cup {StageOutput(proc.stage)} ELSE fs
    /\ UNCHANGED <<parserVars, sessionVars, controlVars, created, outPipe,
                   errPipe, outQ, errQ, order, unitsLeft, sentOut, sentErr>>

RECURSIVE RemoveFirst(_, _)
\* The sequence without the first of its elements equal to x.
RemoveFirst(s, x) ==
    IF s = <<>> THEN <<>>
    ELSE IF Head(s) = x THEN Tail(s)
    ELSE <<Head(s)>> \o RemoveFirst(Tail(s), x)

\* The first n units of s, n at most Len(s).
Take(s, n) == SubSeq(s, 1, IF Len(s) < n THEN Len(s) ELSE n)

\* _enqueue_output(stream, queue), one round of its loop: stream.read(4096)
\* returns what the pipe holds, at most ReadSize units, once it holds
\* something, and queue.put(line) puts that chunk on the queue.  (The chunk
\* in the reader's hand is seen by nobody: the round is one step.)  At end of
\* data, the pipe empty and the writer gone, the reader closes the stream and
\* ends: no round is left to take.
EnqueueOutput(pipe, queue, pipe2, queue2) ==
    /\ pipe # <<>>
    /\ queue2 = Append(queue, Take(pipe, ReadSize))
    /\ pipe2 = DropFirst(pipe, ReadSize)

\* A round of the _stdout_thread.
OutReaderStep ==
    /\ Followed
    /\ EnqueueOutput(outPipe, outQ, outPipe', outQ')
    /\ order' = Append(order, "out")
    /\ UNCHANGED <<parserVars, sessionVars, controlVars, workspaceVars, spawns, proc,
                   errPipe, errQ, unitsLeft, sentOut, sentErr>>

\* A round of the _stderr_thread.
ErrReaderStep ==
    /\ Followed
    /\ EnqueueOutput(errPipe, errQ, errPipe', errQ')
    /\ order' = Append(order, "err")
    /\ UNCHANGED <<parserVars, sessionVars, controlVars, workspaceVars, spawns, proc,
                   outPipe, outQ, unitsLeft, sentOut, sentErr>>

(***************************************************************************)
(* RealTimeSubprocess.write_contents, the flush.                           *)
(***************************************************************************)

\* The marker starts at position i of t.
MarkerAt(t, i) ==
    /\ i + Len(inputRequest) - 1 <= Len(t)
    /\ SubSeq(t, i, i + Len(inputRequest) - 1) = inputRequest

\* contents.find(inputRequest): the 0-based position of the first marker, -1
\* without one.
FindMarker(t) ==
    IF \E i \in 1..Len(t) : MarkerAt(t, i)
    THEN (CHOOSE i \in 1..Len(t) : MarkerAt(t, i) /\ \A j \in 1..(i - 1) : ~MarkerAt(t, j)) - 1
    ELSE -1

\* A replacement that stops after the first marker.
ReplaceFirstMarker(t) ==
    IF FindMarker(t) < 0 THEN t
    ELSE SubSeq(t, 1, FindMarker(t)) \o DropFirst(t, FindMarker(t) + Len(inputRequest))

RECURSIVE ReplaceMarker(_)
\* contents.replace(inputRequest, ''): every marker removed, left to right.
ReplaceMarker(t) ==
    IF t = <<>> THEN <<>>
    ELSE IF MarkerAt(t, 1) THEN ReplaceMarker(DropFirst(t, Len(inputRequest)))
    ELSE <<Head(t)>> \o ReplaceMarker(Tail(t))

\* bytes.decode() raises UnicodeDecodeError on bytes that are no UTF-8.
Decodable(bytes) == \A i \in 1..Len(bytes) : bytes[i] # BadByte

\* Where the flush returns to: the poll of the loop, or the test of the
\* exit code after the final flush.
AfterFlush(p) ==
    CASE p = "compile_flush" -> "compile_poll"
      [] p = "compile_final" -> "compile_check"
      [] p = "link_flush" -> "link_poll"
      [] p = "link_final" -> "link_check"

\* write_contents raises e: the exception leaves the with block, whose exit
\* removes the workspace, while the subprocess may still run.
RaiseInFlush(e) ==
    /\ fpc' = "none"
    /\ StageLeft(TRUE)
    /\ IF proc.alive
       THEN /\ exc' = e
            /\ pc' = "rmtree"
            /\ UNCHANGED <<fs, outcome>>
       ELSE CleanupAlone(e)

\* write_contents goes on.
NoRaise == UNCHANGED <<exc, outcome, fs, proc>>

\* The size taken one more than the queue holds, as a count that includes a
\* chunk still in a reader's hand would be.
BeginStdoutOvercount(p) ==
    /\ fpc' = "out_get"
    /\ pc' = p
    /\ fl' = [size |-> Len(outQ) + 1, res |-> <<>>, empties |-> 0]

\* stdout_contents = read_all_from_queue(self._stdout_queue), its first
\* line, size = queue.qsize(), in the flush running at p.  With nothing
\* queued stdout_contents is empty and write_contents returns.
BeginStdout(p) ==
    IF Len(outQ) = 0
    THEN /\ fpc' = "none"
         /\ pc' = AfterFlush(p)
         /\ fl' = NoLocals
    ELSE /\ fpc' = "out_get"
         /\ pc' = p
         /\ fl' = [size |-> Len(outQ), res |-> <<>>, empties |-> 0]

\* One round of the loop of read_all_from_queue(self._stderr_queue),
\* res += queue.get_nowait(), which raises Empty on an empty queue; after the
\* last round, self._write_to_stderr(stderr_contents.decode()), and stdout's
\* turn is next.
FlushErrGet ==
    /\ fpc = "err_get"
    /\ IF errQ = <<>>
       THEN RaiseInFlush("Empty") /\ UNCHANGED events
       ELSE LET res == fl.res \o Head(errQ)
                size == fl.size - 1
                got == /\ errQ' = Tail(errQ)
                       /\ order' = RemoveFirst(order, "err")
                       /\ UNCHANGED <<outPipe, errPipe, outQ, unitsLeft,
                                      sentOut, sentErr>>
            IN  IF size # 0
                THEN /\ got
                     /\ fl' = [fl EXCEPT !.size = size, !.res = res]
                     /\ UNCHANGED <<pc, fpc, events>>
                     /\ NoRaise
                ELSE IF Decodable(res)
                     THEN /\ got
                          /\ events' = Append(events, ToStderr(res))
                          /\ fpc' = "out_qsize"
                          /\ fl' = NoLocals
                          /\ UNCHANGED pc
                          /\ NoRaise
                     ELSE RaiseInFlush("UnicodeDecodeError") /\ UNCHANGED events
    /\ UNCHANGED <<parserVars, sessionVars, created, spawns>>

\* The start of stdout's turn, after stderr's: what the readers queue
\* between the two sizes taken is seen for stdout and not for stderr.
FlushOutQsize ==
    /\ fpc = "out_qsize"
    /\ BeginStdout(pc)
    /\ UNCHANGED <<parserVars, sessionVars, exc, outcome, events, workspaceVars,
                   processVars>>

\* What write_contents does with the decoded stdout contents: without marker
\* they go to stdout and the flush returns; with one, the contents without
\* their markers go to stdout if any are left, and the input loop starts.
ForwardStdout(contents) ==
    IF FindMarker(contents) >= 0
    THEN /\ events' = events \o (IF Len(ReplaceMarker(contents)) > 0
                                 THEN <<ToStdout(ReplaceMarker(contents))>> ELSE <<>>)
         /\ fpc' = "input"
         /\ fl' = [size |-> 0, res |-> contents, empties |-> 0]
         /\ UNCHANGED pc
    ELSE /\ events' = Append(events, ToStdout(contents))
         /\ fpc' = "none"
         /\ fl' = NoLocals
         /\ pc' = AfterFlush(pc)

\* One round of the loop for stdout; after the last round the contents are
\* decoded and forwarded.
FlushOutGet ==
    /\ fpc = "out_get"
    /\ IF outQ = <<>>
       THEN RaiseInFlush("Empty") /\ UNCHANGED events
       ELSE LET res == fl.res \o Head(outQ)
                size == fl.size - 1
                got == /\ outQ' = Tail(outQ)
                       /\ order' = RemoveFirst(order, "out")
                       /\ UNCHANGED <<outPipe, errPipe, errQ, unitsLeft,
                                      sentOut, sentErr>>
            IN  IF size # 0
                THEN /\ got
                     /\ fl' = [fl EXCEPT !.size = size, !.res = res]
                     /\ UNCHANGED <<pc, fpc, events>>
                     /\ NoRaise
                ELSE IF Decodable(res)
                     THEN got /\ ForwardStdout(res) /\ NoRaise
                     ELSE RaiseInFlush("UnicodeDecodeError") /\ UNCHANGED events
    /\ UNCHANGED <<parserVars, sessionVars, created, spawns>>

\* A line written as the front end returned it.
InputLineBare(readLine) == readLine

\* readLine += "\n" and readLine.encode(): what is written for a line read.
InputLine(readLine) == readLine \o <<"\n">>

\* One round of while(len(readLine) == 0): readLine = self._read_from_stdin().
\* The front end's raw_input raises (fails), or returns line; an empty line
\* repeats the request.  A line that is not empty ends the loop, and
\* self.stdin.write((readLine + "\n").encode()) follows: the write reaches a
\* subprocess that runs; once the subprocess has exited the pipe may be
\* broken (BrokenPipeError) or still held open (piped).
FlushInput(fails, line, piped) ==
    /\ fpc = "input"
    /\ LET kept == UNCHANGED <<outPipe, errPipe, outQ, errQ, order, unitsLeft,
                                sentOut, sentErr>>
       IN  IF fails
           THEN /\ events' = Append(events, InputRequested)
                /\ RaiseInFlush("StdinNotImplementedError")
           ELSE IF Len(line) = 0
           THEN /\ fl.empties < MaxEmptyLines
                /\ fl' = [fl EXCEPT !.empties = @ + 1]
                /\ events' = Append(events, InputRequested)
                /\ kept
                /\ UNCHANGED <<pc, fpc>>
                /\ NoRaise
           ELSE IF proc.alive \/ piped
           THEN /\ events' = events \o <<InputRequested, StdinWrite(InputLine(line))>>
                /\ fpc' = "none"
                /\ pc' = AfterFlush(pc)
                /\ UNCHANGED fl
                /\ kept
                /\ NoRaise
           ELSE /\ events' = events \o <<InputRequested, StdinWriteFailed(InputLine(line))>>
                /\ RaiseInFlush("BrokenPipeError")
    /\ UNCHANGED <<parserVars, sessionVars, created, spawns>>

(***************************************************************************)
(* do_compile_link_execute: the stages.                                    *)
(***************************************************************************)

\* A poll that never sees the exit: the flush is always one of the loop.
PollBlind(stage) ==
    /\ pc = stage \o "_poll"
    /\ fpc = "none"
    /\ fpc' = "out_qsize"
    /\ pc' = stage \o "_flush"
    /\ fl' = NoLocals
    /\ UNCHANGED <<parserVars, sessionVars, exc, outcome, events, workspaceVars,
                   processVars>>

\* while pc.poll() is None: pc.write_contents(), and the write_contents()
\* after the loop.  poll() finds the subprocess running, and the flush is one
\* of the loop, or exited, which sets returncode, and the flush is the final
\* one.  The flush starts with read_all_from_queue(self._stderr_queue), whose
\* first line is size = queue.qsize(); with nothing queued stderr_contents is
\* empty and stdout's turn is next.  (poll() reads nothing but the process,
\* this qsize() nothing but the stderr queue: an exit between the two can be
\* moved after them and what the readers do before them, in the same order,
\* so that the two are one step.  The size of the stdout queue is taken in
\* a step of its own, and so is every chunk.)
Poll(stage) ==
    /\ pc = stage \o "_poll"
    /\ fpc = "none"
    /\ proc' = IF proc.alive THEN proc
               ELSE [proc EXCEPT !.polled = TRUE, !.returncode = proc.exit]
    /\ LET p == IF proc.alive THEN stage \o "_flush" ELSE stage \o "_final"
       IN  IF Len(errQ) = 0
           THEN /\ fpc' = "out_qsize"
                /\ pc' = p
                /\ fl' = NoLocals
           ELSE /\ fpc' = "err_get"
                /\ pc' = p
                /\ fl' = [size |-> Len(errQ), res |-> <<>>, empties |-> 0]
    /\ UNCHANGED <<parserVars, sessionVars, exc, outcome, events, workspaceVars, spawns,
                   outPipe, errPipe, outQ, errQ, order, unitsLeft,
                   sentOut, sentErr>>

\* The test of the exit code left out: the next stage whatever the code.
CheckExitIgnored(stage) ==
    /\ pc = stage \o "_check"
    /\ StageLeft(stage = "link")
    /\ pc' = IF stage = "compile" THEN "link_spawn" ELSE "execute"
    /\ UNCHANGED <<events, exc, outcome, fs>>
    /\ UNCHANGED <<parserVars, sessionVars, fpc, created, spawns>>

\* if pc.returncode != 0: the message and the return from inside the with
\* block; otherwise the next stage.  The subprocess has exited.
CheckExit(stage) ==
    /\ pc = stage \o "_check"
    /\ StageLeft(stage = "link" \/ proc.returncode # 0)
    /\ IF proc.returncode # 0
       THEN /\ events' = Append(events, Message(stage \o "_failed", proc.returncode))
            /\ CleanupAlone("none")
       ELSE /\ pc' = IF stage = "compile" THEN "link_spawn" ELSE "execute"
            /\ UNCHANGED <<events, exc, outcome, fs>>
    /\ UNCHANGED <<parserVars, sessionVars, fpc, created, spawns>>

RECURSIVE JoinArgs(_)
\* " ".join(args)
JoinArgs(args) ==
    IF args = <<>> THEN <<>>
    ELSE IF Len(args) = 1 THEN Head(args)
    ELSE Head(args) \o <<" ">> \o JoinArgs(Tail(args))

\* output.decode(errors="backslashreplace"): never raises, a bad byte
\* becomes its escape.
DecodeLossy(bytes) ==
    [i \in 1..Len(bytes) |-> IF bytes[i] = BadByte THEN "\\xff" ELSE bytes[i]]

\* An execute stage that takes an exit code other than 0 for a failure of
\* the pipeline.
ExecuteStrict(ok, output, c) ==
    /\ pc = "execute"
    /\ LET entry == [stage |-> "execute", cmd |-> <<>>,
                     line |-> JoinArgs(<<<<"source.run">>>> \o magics.args),
                     exited |-> TRUE, exit |-> c, output |-> output]
       IN  IF ok
           THEN /\ spawns' = Append(spawns, entry)
                /\ events' = events \o IfVerbose(magics, "execute", 0)
                                    \o <<ToStdout(DecodeLossy(output))>>
                /\ CleanupAlone(IF c = 0 THEN "none" ELSE "CalledProcessError")
           ELSE /\ UNCHANGED spawns
                /\ events' = events \o IfVerbose(magics, "execute", 0)
                /\ CleanupAlone("ExceptionPexpect")
    /\ UNCHANGED <<parserVars, sessionVars, fpc, fl, created, proc,
                   outPipe, errPipe, outQ, errQ, order, unitsLeft, sentOut, sentErr>>

\* The execute stage: the message if verbose, then pexpect's run(str_args,
\* withexitstatus=True), which returns the whole output and the exit code of
\* the program once it has ended, or raises when the program cannot be
\* started; the output goes to stdout decoded, then the exit code to stderr
\* if verbose.
Execute(ok, output, c) ==
    /\ pc = "execute"
    /\ LET entry == [stage |-> "execute", cmd |-> <<>>,
                     line |-> JoinArgs(<<<<"source.run">>>> \o magics.args),
                     exited |-> TRUE, exit |-> c, output |-> output]
       IN  IF ok
           THEN /\ spawns' = Append(spawns, entry)
                /\ events' = events \o IfVerbose(magics, "execute", 0)
                                    \o <<ToStdout(DecodeLossy(output))>>
                                    \o IfVerbose(magics, "exited", c)
                /\ CleanupAlone("none")
           ELSE /\ UNCHANGED spawns
                /\ events' = events \o IfVerbose(magics, "execute", 0)
                /\ CleanupAlone("ExceptionPexpect")
    /\ UNCHANGED <<parserVars, sessionVars, fpc, fl, created, proc,
                   outPipe, errPipe, outQ, errQ, order, unitsLeft, sentOut, sentErr>>

(***************************************************************************)
(* Leaving the with block, and do_execute's handler.                       *)
(***************************************************************************)

\* TemporaryDirectory's cleanup while a subprocess may still run, first
\* half: shutil.rmtree lists the directory and unlinks what it listed.
Rmtree ==
    /\ pc = "rmtree"
    /\ fs' = fs \cap {"tmpdir"}
    /\ pc' = "rmdir"
    /\ UNCHANGED <<parserVars, sessionVars, fpc, fl, exc, outcome, events, created,
                   processVars>>

\* Second half: os.rmdir, which raises OSError on a directory that is not
\* empty (a file made since the listing).  The exception that left the
\* block is in flight.
Rmdir ==
    /\ pc = "rmdir"
    /\ IF fs \subseteq {"tmpdir"}
       THEN /\ fs' = {}
            /\ pc' = "handler"
            /\ UNCHANGED <<exc, outcome>>
       ELSE /\ exc' = "OSError"
            /\ pc' = "handler"
            /\ UNCHANGED <<fs, outcome>>
    /\ UNCHANGED <<parserVars, sessionVars, fpc, fl, events, created, processVars>>

\* A handler that returns the record without the message.
HandlerSilent ==
    /\ pc = "handler"
    /\ outcome' = OkOutcome
    /\ pc' = "returned"
    /\ UNCHANGED <<parserVars, sessionVars, fpc, fl, exc, events, workspaceVars,
                   processVars>>

\* except Exception as err: the message, and the ok record all the same.
Handler ==
    /\ pc = "handler"
    /\ events' = Append(events, Message("error", 0))
    /\ outcome' = OkOutcome
    /\ pc' = "returned"
    /\ UNCHANGED <<parserVars, sessionVars, fpc, fl, exc, workspaceVars, processVars>>

(***************************************************************************)
(* do_shutdown.                                                            *)
(***************************************************************************)

RECURSIVE CleanupFilesUnchecked(_, _, _)
\* The loop without the test: os.remove raises on the first path that is
\* missing, which ends the loop.
CleanupFilesUnchecked(tracked, paths, i) ==
    IF i > Len(tracked) THEN paths
    ELSE IF tracked[i] \notin paths THEN paths
    ELSE CleanupFilesUnchecked(tracked, paths \ {tracked[i]}, i + 1)

RECURSIVE CleanupFiles(_, _, _)
\* cleanup_files, its loop from the i-th tracked path on: for file in
\* self.files: if(os.path.exists(file)): os.remove(file).  What exists
\* afterwards, of the paths that exist.
CleanupFiles(tracked, paths, i) ==
    IF i > Len(tracked) THEN paths
    ELSE CleanupFiles(tracked, IF tracked[i] \in paths THEN paths \ {tracked[i]} ELSE paths, i + 1)

\* do_shutdown(restart): self.cleanup_files().  The front end shuts the
\* kernel down between submissions; no submission follows.
DoShutdown ==
    /\ pc \in {"idle", "returned"}
    /\ shutdowns < MaxShutdowns
    /\ shutdowns' = shutdowns + 1
    /\ fs' = CleanupFiles(files, fs, 1)
    /\ UNCHANGED <<parserVars, execution_count, submissions, files, controlVars,
                   created, processVars>>

(***************************************************************************)
(* The session.                                                            *)
(***************************************************************************)

Init ==
    /\ code = <<>>
    /\ parsed = 0
    /\ raised = FALSE
    /\ magics = DefaultMagics
    /\ actual_code = <<>>
    /\ PipelineIdle

Next ==
    \/ \E c \in PipelineCodes : Submit(c)
    \/ FilterStep
    \/ \E ok \in BOOLEAN : Mkdtemp(ok)
    \/ \E ok \in BOOLEAN : WriteSource(ok)
    \/ \E stage \in {"compile", "link"}, ok \in BOOLEAN, script \in OutScripts :
           Spawn(stage, ok, script)
    \/ ChildWriteOut
    \/ \E u \in ErrUnits : ChildWriteErr(u)
    \/ \E c \in ExitCodes : ChildExit(c)
    \/ OutReaderStep
    \/ ErrReaderStep
    \/ \E stage \in {"compile", "link"} : Poll(stage)
    \/ FlushErrGet
    \/ FlushOutQsize
    \/ FlushOutGet
    \/ \E fails \in BOOLEAN, line \in InputLines, piped \in BOOLEAN :
           FlushInput(fails, line, piped)
    \/ \E stage \in {"compile", "link"} : CheckExit(stage)
    \/ \E ok \in BOOLEAN, output \in RunOutputs, c \in ExitCodes : Execute(ok, output, c)
    \/ Rmtree
    \/ Rmdir
    \/ Handler
    \/ DoShutdown

Spec == Init /\ [][Next]_vars

(***************************************************************************)
(* Properties of the pipeline (checked under Spec).                        *)
(***************************************************************************)

\* The kernel's own messages that report a failure.
FailureKinds == {"compile_failed", "link_failed", "error"}

DiagnosticEmitted ==
    \E i \in 1..Len(events) : events[i].ch = "stderr" /\ events[i].kind \in FailureKinds

\* The i-th process of the submission belongs to stage and has exited.
ExitedStage(i, stage) ==
    /\ Len(spawns) >= i
    /\ spawns[i].stage = stage
    /\ spawns[i].exited

\* What a step adds to the events.
NewEvents == SubSeq(events', Len(events) + 1, Len(events'))

\* The contents are a text that is not empty, without marker, followed by
\* the marker and nothing more.
TextThenMarker(contents) ==
    /\ Len(contents) > Len(inputRequest)
    /\ FindMarker(contents) = Len(contents) - Len(inputRequest)

\* A unit of the text is one of the marker's.
HasMarkerPart(text) == \E i \in 1..Len(text) : text[i] \in {inputRequest[1], inputRequest[2]}

\* C1: once the compile-stage subprocess of a submission has exited with a
\* code that is not 0, it is the only process the submission starts: the
\* foreground is in the compile stage or on its way out, never in the link or
\* the execute stage, and a submission that has returned has put a failure
\* diagnostic on the error channel and returned the ok record.
C1_CompileFailureStops ==
    (ExitedStage(1, "compile") /\ spawns[1].exit # 0) =>
        /\ Len(spawns) = 1
        /\ pc \in {"compile_poll", "compile_flush", "compile_final", "compile_check",
                   "rmtree", "rmdir", "handler", "returned"}
        /\ pc = "returned" => (DiagnosticEmitted /\ outcome.status = "ok")

\* C1's case: the compiler has exited with 1, the message about it is out
\* and the submission has returned.
C1_Witness ==
    /\ pc = "returned"
    /\ ExitedStage(1, "compile") /\ spawns[1].exit = 1
    /\ Len(spawns) = 1
    /\ \E i \in 1..Len(events) : events[i] = Message("compile_failed", 1)

\* C2: once the compile-stage subprocess has exited with 0 and the
\* link-stage subprocess with a code that is not 0, these two are the only
\* processes of the submission: the foreground is in the link stage or on its
\* way out, never in the execute stage, and a submission that has returned
\* has put a failure diagnostic on the error channel and returned the ok
\* record.
C2_LinkFailureStops ==
    (/\ ExitedStage(1, "compile") /\ spawns[1].exit = 0
     /\ ExitedStage(2, "link") /\ spawns[2].exit # 0) =>
        /\ Len(spawns) = 2
        /\ pc \in {"link_poll", "link_flush", "link_final", "link_check",
                   "rmtree", "rmdir", "handler", "returned"}
        /\ pc = "returned" => (DiagnosticEmitted /\ outcome.status = "ok")

\* C2's case: the compiler has exited with 0, the linker with 1, the message
\* about it is out and the submission has returned.
C2_Witness ==
    /\ pc = "returned"
    /\ ExitedStage(1, "compile") /\ spawns[1].exit = 0
    /\ ExitedStage(2, "link") /\ spawns[2].exit = 1
    /\ Len(spawns) = 2
    /\ \E i \in 1..Len(events) : events[i] = Message("link_failed", 1)

\* C3: an exception raised at any step of a submission ends in do_execute's
\* handler and nowhere else: while it is in flight the foreground is leaving
\* the with block or in the handler, and once submit has returned, with or
\* without exception, its outcome is the ok record with the session's
\* current execution count, and after an exception a diagnostic is on the
\* error channel.
C3_SubmitNeverRaises ==
    /\ exc # "none" => pc \in {"rmtree", "rmdir", "handler", "returned"}
    /\ pc = "returned" =>
           /\ outcome = [status |-> "ok", execution_count |-> execution_count]
           /\ exc # "none" => DiagnosticEmitted

\* C3's case: the input request raised in a flush of the compile stage, and
\* the submission has returned.
C3_Witness ==
    /\ pc = "returned"
    /\ exc = "StdinNotImplementedError"
    /\ Len(spawns) = 1
    /\ \E i \in 1..(Len(events) - 1) :
           events[i] = InputRequested /\ events[i + 1] = Message("error", 0)

\* C4: once submit has returned from a submission that created a workspace,
\* neither the workspace directory nor a file of it exists.
C4_WorkspaceRemoved ==
    (pc = "returned" /\ created) => fs = {}

\* C5: the step of a flush that finds, in what it drained from stdout, a
\* text followed by the marker puts exactly the text on the stdout channel,
\* before any input request; every step of the input loop that follows
\* requests one line: an empty line repeats the request (or the request
\* raises), a line that is not empty is written at once with one "\n" added,
\* to a subprocess that takes it, or the write raises because the subprocess
\* has exited.
C5_TextThenRequestThenWrite ==
    [][/\ (fpc = "out_get" /\ fpc' = "input" /\ TextThenMarker(fl'.res)) =>
              NewEvents = <<ToStdout(SubSeq(fl'.res, 1, Len(fl'.res) - Len(inputRequest)))>>
       /\ (fpc = "input" /\ events' # events) =>
              \/ /\ NewEvents = <<InputRequested>>
                 /\ fpc' = "input" \/ exc' = "StdinNotImplementedError"
              \/ \E line \in InputLines \ {<<>>} :
                     /\ NewEvents = <<InputRequested, StdinWrite(line \o <<"\n">>)>>
                     /\ fpc' = "none"
                     /\ exc' = "none"
              \/ \E line \in InputLines \ {<<>>} :
                     /\ NewEvents = <<InputRequested, StdinWriteFailed(line \o <<"\n">>)>>
                     /\ ~proc.alive
                     /\ exc' = "BrokenPipeError"
      ]_vars

\* C5's case: a flush drained "hello" and the marker, forwarded "hello",
\* requested a line and got an empty one, requested again, got "42" and wrote
\* "42\n".
C5_Witness ==
    /\ fpc = "none"
    /\ fl.res = <<"hello">> \o inputRequest
    /\ fl.empties = 1
    /\ events = <<ToStdout(<<"hello">>), InputRequested, InputRequested,
                  StdinWrite(<<"42", "\n">>)>>

\* C6: when the executed program has printed the marker, nothing put on the
\* stdout channel for it holds the marker, and a line is requested and
\* written to the program.
C6_ExecuteMarkerConsumed ==
    [][(/\ pc = "execute"
        /\ Len(spawns') > Len(spawns)
        /\ FindMarker(spawns'[Len(spawns')].output) >= 0) =>
           /\ \A i \in 1..Len(NewEvents) :
                  NewEvents[i].ch = "stdout" => FindMarker(NewEvents[i].text) = -1
           /\ \E i \in 1..Len(NewEvents) : NewEvents[i] = InputRequested
           /\ \E i \in 1..Len(NewEvents) : NewEvents[i].ch = "stdin"
      ]_vars

\* C7: while the first subprocess of a submission is run, if it has printed
\* a marker then no text on the stdout channel holds a part of a marker.
C7_NoMarkerPartForwarded ==
    (/\ Len(spawns) = 1
     /\ Followed
     /\ FindMarker(sentOut) >= 0) =>
        \A i \in 1..Len(events) : events[i].ch = "stdout" => ~HasMarkerPart(events[i].text)

\* C8: when the exit code of a compile or link stage is tested, after the
\* final flush, nothing the subprocess wrote is left in a pipe or in a queue.
C8_NothingLeftAtExitTest ==
    pc \in {"compile_check", "link_check"} =>
        /\ outPipe = <<>> /\ outQ = <<>>
        /\ errPipe = <<>> /\ errQ = <<>>

(***************************************************************************)
(* The parser on its own: a text, and calls of _filter_magics on it.       *)
(***************************************************************************)

ParserInit ==
    /\ code \in ParserInputs
    /\ parsed = 0
    /\ raised = FALSE
    /\ magics = DefaultMagics
    /\ actual_code = <<>>
    /\ PipelineIdle

ParserCall ==
    /\ parsed < MaxCalls
    /\ CallFilterMagics(code)
    /\ parsed' = parsed + 1
    /\ UNCHANGED <<code, pipelineVars>>

ParserNext == ParserCall

SpecParser == ParserInit /\ [][ParserNext]_vars

(***************************************************************************)
(* Properties of the parser (checked under SpecParser).                    *)
(***************************************************************************)

\* No line of the text starts with the directive prefix: ";%" neither opens
\* the text nor follows a line break.
NoDirectiveLine(text) ==
    \A i \in 1..(Len(text) - 1) :
        (text[i] = ";" /\ text[i + 1] = "%") =>
            (i > 1 /\ text[i - 1] \notin LineBreaks)

RECURSIVE NormalizeBreaks(_)
\* The text with every line terminator ("\r\n" counting as one) replaced by
\* "\n", and "\n" added after a last line that has no terminator.
NormalizeBreaks(text) ==
    IF text = <<>> THEN <<>>
    ELSE IF Len(text) >= 2 /\ text[1] = "\r" /\ text[2] = "\n"
         THEN <<"\n">> \o NormalizeBreaks(DropFirst(text, 2))
    ELSE IF Head(text) \in LineBreaks THEN <<"\n">> \o NormalizeBreaks(Tail(text))
    ELSE IF Len(text) = 1 THEN <<Head(text), "\n">>
    ELSE <<Head(text)>> \o NormalizeBreaks(Tail(text))

\* Every line of the text is ended by "\n", and by nothing else.
NewlineTerminated(text) ==
    /\ \A i \in 1..Len(text) : text[i] \in LineBreaks => text[i] = "\n"
    /\ text # <<>> => text[Len(text)] = "\n"

DirectiveKey(line) == Strip(Lower(Strip(SplitMax(DropFirst(line, 2), ":", 1)[1])))

\* The value of a well-formed directive line: the text after its colon.
DirectiveValue(line) == SplitMax(DropFirst(line, 2), ":", 1)[2]

RECURSIVE ConcatTokens(_, _, _)
\* The token lists of the directive lines of ls with key k, one after the
\* other in line order; args lines are cut by ArgTokens, flag lines at blanks.
ConcatTokens(ls, k, i) ==
    IF i > Len(ls) THEN <<>>
    ELSE (IF StartsWithMagic(ls[i]) /\ DirectiveKey(ls[i]) = <<k>>
          THEN (IF k = "args" THEN ArgTokens(DirectiveValue(ls[i]))
                ELSE SplitWs(DirectiveValue(ls[i])))
          ELSE <<>>) \o ConcatTokens(ls, k, i + 1)

\* C10: after every call that returns (all directive lines well-formed), on
\* the first submission of a text as on a later one, each of the three lists
\* is the concatenation, in line order, of the token lists of the lines with
\* its key alone.
C10_ListsAreConcatenations ==
    (parsed > 0 /\ ~raised) =>
        /\ magics.cflags = ConcatTokens(SplitLines(code), "cflags", 1)
        /\ magics.ldflags = ConcatTokens(SplitLines(code), "ldflags", 1)
        /\ magics.args = ConcatTokens(SplitLines(code), "args", 1)

\* C10's case: a second call on a text with two cflags lines, an ldflags line
\* and an args line between them has returned.
C10_Witness ==
    /\ parsed = MaxCalls
    /\ ~raised
    /\ Len(SplitLines(code)) = 3
    /\ StartsWithMagic(SplitLines(code)[1]) /\ DirectiveKey(SplitLines(code)[1]) = <<"cflags">>
    /\ StartsWithMagic(SplitLines(code)[2]) /\ DirectiveKey(SplitLines(code)[2]) = <<"args">>
    /\ StartsWithMagic(SplitLines(code)[3]) /\ DirectiveKey(SplitLines(code)[3]) = <<"cflags">>
    /\ Len(magics.cflags) = 3
    /\ Len(magics.args) = 2
    /\ magics.ldflags = <<>>

RECURSIVE QuoteOpen(_, _, _)
\* Reading s from position i, inq telling whether a quoted segment is open
\* there (inside one a backslash takes the next unit with it): whether one
\* is open at the end.
QuoteOpen(s, i, inq) ==
    IF i > Len(s) THEN inq
    ELSE IF inq /\ s[i] = "\\" /\ i < Len(s) THEN QuoteOpen(s, i + 2, TRUE)
    ELSE IF s[i] = "\"" THEN QuoteOpen(s, i + 1, ~inq)
    ELSE QuoteOpen(s, i + 1, inq)

\* Every quoted segment of the value is closed.
WellQuoted(value) == ~QuoteOpen(value, 1, FALSE)

RECURSIVE CutOutsideQuotes(_, _, _, _, _)
\* The value cut at the units of seps and at whitespace, where these lie
\* outside quoted segments; pieces between two cuts that are empty are
\* dropped.  cur is the piece being read, inq whether a quoted segment is
\* open.
CutOutsideQuotes(s, i, cur, inq, seps) ==
    IF i > Len(s) THEN (IF cur = <<>> THEN <<>> ELSE <<cur>>)
    ELSE IF inq /\ s[i] = "\\" /\ i < Len(s)
         THEN CutOutsideQuotes(s, i + 2, cur \o <<s[i], s[i + 1]>>, TRUE, seps)
    ELSE IF s[i] = "\"" THEN CutOutsideQuotes(s, i + 1, Append(cur, s[i]), ~inq, seps)
    ELSE IF ~inq /\ (IsSpace(s[i]) \/ s[i] \in seps)
         THEN (IF cur = <<>> THEN <<>> ELSE <<cur>>)
                  \o CutOutsideQuotes(s, i + 1, <<>>, FALSE, seps)
    ELSE CutOutsideQuotes(s, i + 1, Append(cur, s[i]), inq, seps)

\* The pieces with the quotes at their two ends taken off.
QuotedTokens(value, seps) ==
    LET pieces == CutOutsideQuotes(value, 1, <<>>, FALSE, seps)
    IN  [i \in 1..Len(pieces) |-> StripQuotes(pieces[i])]

\* The text is one args directive line, its value well quoted, and the call
\* on it has returned.
OneArgsLine ==
    /\ parsed > 0
    /\ ~raised
    /\ Len(SplitLines(code)) = 1
    /\ StartsWithMagic(SplitLines(code)[1])
    /\ DirectiveKey(SplitLines(code)[1]) = <<"args">>
    /\ WellQuoted(DirectiveValue(SplitLines(code)[1]))

\* C11 as stated: the value of an args directive is cut into tokens at
\* whitespace outside quoted segments and nowhere else, and the quotes
\* around a token are taken off.
C11_CutAtWhitespaceOnly ==
    OneArgsLine => magics.args = QuotedTokens(DirectiveValue(SplitLines(code)[1]), {})

\* C11 amended: the value of an args directive whose quoted segments are all
\* closed is cut into tokens at whitespace and at commas outside quoted
\* segments, and the quotes at the two ends of a token are taken off.
C11_CutAtWhitespaceAndCommas ==
    OneArgsLine => magics.args = QuotedTokens(DirectiveValue(SplitLines(code)[1]), {","})

\* C11's case: the args directive with the value "a b" c has been parsed
\* into the two tokens a b and c.
C11_Witness ==
    /\ parsed > 0
    /\ code = <<";", "%", "args", ":", "\"", "a", " ", "b", "\"", " ", "c">>
    /\ magics.args = << <<"a", " ", "b">>, <<"c">> >>

\* The line holds the key/value separator.
HasSeparator(line) == \E i \in 1..Len(line) : line[i] = ":"

\* A directive line with separator that the spec has ignored: its key is
\* none of the six, or it is compiler, linker or verbose with a value that
\* is not an accepted one.
Ignored(line) ==
    LET key == DirectiveKey(line)
        value == DirectiveValue(line)
    IN  \/ key \notin {<<"cflags">>, <<"ldflags">>, <<"args">>, <<"compiler">>,
                       <<"linker">>, <<"verbose">>}
        \/ key = <<"compiler">> /\ Strip(value) \notin {<<"yasm">>, <<"nasm">>}
        \/ key = <<"linker">> /\ Strip(value) \notin {<<"gcc">>, <<"ld">>}
        \/ key = <<"verbose">> /\ Strip(Lower(value)) \notin {<<"false">>, <<"0">>}

RECURSIVE PlainLines(_, _)
\* The lines of ls from the i-th on that are no directive lines, each with
\* "\n" after it.
PlainLines(ls, i) ==
    IF i > Len(ls) THEN <<>>
    ELSE (IF StartsWithMagic(ls[i]) THEN <<>> ELSE ls[i] \o <<"\n">>)
             \o PlainLines(ls, i + 1)

\* C12: when every directive line of a parsed text holds the separator and
\* is one the spec has ignored, the call returns, the configuration is the
\* default one, as without these lines, and the residual code is the other
\* lines.
C12_SeparatorNeverFatal ==
    (/\ parsed > 0
     /\ \A i \in 1..Len(SplitLines(code)) :
            StartsWithMagic(SplitLines(code)[i]) =>
                (HasSeparator(SplitLines(code)[i]) /\ Ignored(SplitLines(code)[i]))) =>
        /\ ~raised
        /\ magics = DefaultMagics
        /\ actual_code = PlainLines(SplitLines(code), 1)

\* A line of the text is a directive line without the key/value separator.
HasBareDirective(text) ==
    \E i \in 1..Len(SplitLines(text)) :
        StartsWithMagic(SplitLines(text)[i]) /\ ~HasSeparator(SplitLines(text)[i])

\* C13: a submission of a text with a directive line that has no separator
\* goes from the parser straight to do_execute's handler: it creates no
\* workspace and starts no process, and once it has returned a diagnostic is
\* on the error channel and the outcome is the ok record.
C13_BareDirectiveAborts ==
    (HasBareDirective(code) /\ pc \notin {"idle", "filter"}) =>
        /\ exc = "ValueError"
        /\ pc \in {"handler", "returned"}
        /\ ~created /\ fs = {}
        /\ spawns = <<>>
        /\ pc = "returned" =>
               /\ events = <<Message("error", 0)>>
               /\ outcome = [status |-> "ok", execution_count |-> execution_count]

\* C13's case: the text with the line ";%cflags" has been submitted and the
\* submission has returned.
C13_Witness ==
    /\ pc = "returned"
    /\ code = <<";", "%", "cflags", "\n", "a", "\n">>
    /\ outcome.status = "ok"
    /\ events = <<Message("error", 0)>>

\* C14: once a submission whose program was executed has returned, whatever
\* the program's exit code: no exception was raised and no failure
\* diagnostic is out, the outcome is the ok record, the program's output,
\* decoded, is on the stdout channel, and the message with the exit code is
\* the last event if the configuration is verbose and is not among the
\* events otherwise.
C14_ExitCodeNeverFails ==
    (pc = "returned" /\ Len(spawns) = 3) =>
        LET run == spawns[3]
            n == Len(events)
            out == ToStdout([i \in 1..Len(run.output) |->
                                IF run.output[i] = BadByte THEN "\\xff" ELSE run.output[i]])
        IN  /\ run.stage = "execute"
            /\ exc = "none"
            /\ ~DiagnosticEmitted
            /\ outcome = [status |-> "ok", execution_count |-> execution_count]
            /\ IF magics.verbose
               THEN /\ n >= 2
                    /\ events[n] = Message("exited", run.exit)
                    /\ events[n - 1] = out
               ELSE /\ n >= 1
                    /\ events[n] = out
                    /\ \A i \in 1..n : events[i].kind # "exited"

\* C14's case: a program was executed with verbosity off, printed "hello"
\* and the marker and exited with 1, and the submission has returned.
C14_Witness ==
    /\ pc = "returned"
    /\ Len(spawns) = 3
    /\ spawns[3].exit = 1
    /\ spawns[3].output = <<"hello">> \o inputRequest
    /\ ~magics.verbose
    /\ outcome.status = "ok"

(***************************************************************************)
(* do_shutdown on its own: a tracked list and a filesystem, and calls of   *)
(* do_shutdown on them.  (No code of the kernel adds a path to self.files: *)
(* in a session the list is the empty one of __init__.  Here the list is   *)
(* an input, any files of a workspace, so that the loop has paths to work  *)
(* on.)                                                                    *)
(***************************************************************************)

ShutdownInit ==
    /\ code = <<>>
    /\ parsed = 0
    /\ raised = FALSE
    /\ magics = DefaultMagics
    /\ actual_code = <<>>
    /\ execution_count = 0
    /\ submissions = 0
    /\ files \in SeqsUpTo(WorkspaceFiles, MaxFiles)
    /\ shutdowns = 0
    /\ pc = "idle"
    /\ fpc = "none"
    /\ fl = NoLocals
    /\ fs \in SUBSET WorkspacePaths
    /\ created = FALSE
    /\ spawns = <<>>
    /\ proc = NoProc
    /\ outPipe = <<>> /\ errPipe = <<>>
    /\ outQ = <<>> /\ errQ = <<>> /\ order = <<>>
    /\ unitsLeft = 0
    /\ sentOut = <<>> /\ sentErr = <<>>
    /\ events = <<>>
    /\ exc = "none"
    /\ outcome = NoOutcome

ShutdownNext == DoShutdown

SpecShutdown == ShutdownInit /\ [][ShutdownNext]_vars

\* C15: a call of do_shutdown leaves no tracked path in existence, removes
\* nothing but tracked paths, and raises nothing, whether the tracked paths
\* existed before it or not; a call after the first changes nothing on the
\* filesystem.
C15_ShutdownIdempotent ==
    [][shutdowns' = shutdowns + 1 =>
           /\ \A i \in 1..Len(files) : files[i] \notin fs'
           /\ fs' = fs \ {files[i] : i \in 1..Len(files)}
           /\ shutdowns > 0 => fs' = fs
           /\ exc' = exc
      ]_vars

\* C15's case: do_shutdown was called twice with a list that names one path
\* twice, so that the path is missing when the loop comes to it again, and
\* a path that is not tracked is still there.
C15_Witness ==
    /\ shutdowns = 2
    /\ files = <<"source.o", "source.run", "source.o">>
    /\ fs = {"tmpdir", "source.asm"}

(***************************************************************************)
(* Properties of the flush and of the stages (checked under Spec).         *)
(***************************************************************************)

\* C16: when a flush takes from the stdout queue a chunk that holds the
\* marker, no stderr chunk queued before that chunk is still queued: all of
\* them were forwarded by an earlier flush or earlier in this one.
C16_StderrQueuedBeforeMarkerIsFlushed ==
    [][(/\ fpc = "out_get"
        /\ outQ # <<>>
        /\ outQ' = Tail(outQ)
        /\ exc' = exc
        /\ FindMarker(Head(outQ)) >= 0) =>
           (order # <<>> /\ Head(order) = "out")
      ]_vars

\* A drain of queue q by the flush is under way.
Draining(q) == fpc = (IF q = "err" THEN "err_get" ELSE "out_get")

\* The queue of that name.
QueueOf(q, eq, oq) == IF q = "err" THEN eq ELSE oq

\* One step seen from the drain of queue q, before holding queue and after
\* holding queue2:
\*  - the drain starts with the number of chunks queued, and only with some;
\*  - a round of the drain finds a chunk, takes the one at the head, counts
\*    it, and the drain ends with the round that counts the last one; the
\*    only failure of a round is the decoding of what was taken, after the
\*    last chunk;
\*  - a chunk pushed during the drain goes behind those queued and is not
\*    counted.
DrainStep(q, queue, queue2) ==
    /\ (~Draining(q) /\ Draining(q)') =>
           (fl'.size = Len(queue2) /\ Len(queue2) > 0 /\ fl'.res = <<>>)
    /\ (Draining(q) /\ (fl' # fl \/ fpc' # fpc)) =>
           /\ queue # <<>>
           /\ exc' # "Empty"
           /\ exc' = exc =>
                  /\ queue2 = Tail(queue)
                  /\ IF fl.size > 1
                     THEN /\ Draining(q)'
                          /\ fl'.size = fl.size - 1
                          /\ fl'.res = fl.res \o Head(queue)
                     ELSE ~Draining(q)'
           /\ exc' # exc => (exc' = "UnicodeDecodeError" /\ fl.size = 1)
    /\ (Draining(q) /\ fl' = fl /\ fpc' = fpc /\ queue2 # queue) =>
           /\ Len(queue2) = Len(queue) + 1
           /\ SubSeq(queue2, 1, Len(queue)) = queue

\* C17: a flush never blocks on and never fails because of the readers: a
\* drain removes exactly the chunks counted at its start, every removal
\* finds a chunk (the count left never exceeds what is queued, Empty is never
\* raised), and chunks pushed during the drain stay queued behind, in order.
C17_DrainTakesCountedChunks ==
    /\ [](\A q \in {"err", "out"} :
             Draining(q) => (fl.size >= 1 /\ fl.size <= Len(QueueOf(q, errQ, outQ))))
    /\ [](exc # "Empty")
    /\ [][/\ DrainStep("err", errQ, errQ')
          /\ DrainStep("out", outQ, outQ')]_vars

\* A chunk was pushed during a drain of the stderr queue and is not among
\* those counted.
C17_Witness ==
    /\ fpc = "err_get"
    /\ Len(errQ) > fl.size

(***************************************************************************)
(* The flush on what a subprocess has printed: the compile stage of a      *)
(* submission, from the first poll on, with a subprocess that has written  *)
(* all its output before.                                                  *)
(***************************************************************************)

\* The pieces of the texts the subprocess has written to its stdout: a unit
\* of text and the marker.
FlushPieces == {<<"a">>, inputRequest}

\* The most pieces in such a text.
MaxPieces == 4

RECURSIVE Flatten(_)
\* The pieces of ps, one after the other.
Flatten(ps) == IF ps = <<>> THEN <<>> ELSE Head(ps) \o Flatten(Tail(ps))

\* The texts of pieces, and one with a marker between the two halves of
\* another.
FlushTexts ==
    {Flatten(ps) : ps \in SeqsUpTo(FlushPieces, MaxPieces)}
        \cup {<<inputRequest[1]>> \o inputRequest \o <<inputRequest[2]>>}

\* The submission of the text "a\n" has spawned the compile subprocess
\* (Submit, FilterStep, Mkdtemp, WriteSource, Spawn), which has written text
\* to its stdout and errs to its stderr; the stdout reader has queued the
\* first k units of text as a chunk, the rest is in the pipe.
FlushInit ==
    \E text \in FlushTexts, errs \in {<<>>, <<"warning">>} :
    \E k \in 0..Len(text) :
    LET c == <<"a", "\n">>
        r == FilterMagics(c)
    IN  /\ code = c
        /\ parsed = 1
        /\ raised = r.raised
        /\ magics = r.magics
        /\ actual_code = r.actual_code
        /\ execution_count = 1
        /\ submissions = 1
        /\ files = <<>>
        /\ shutdowns = 0
        /\ pc = "compile_poll"
        /\ fpc = "none"
        /\ fl = NoLocals
        /\ fs = {"tmpdir", "source.asm"}
        /\ created = TRUE
        /\ spawns = <<[stage |-> "compile", cmd |-> StageCommand("compile", r.magics),
                       line |-> <<>>, exited |-> FALSE, exit |-> 0, output |-> <<>>]>>
        /\ proc = [stage |-> "compile", alive |-> TRUE, polled |-> FALSE, exit |-> 0,
                   returncode |-> 0, toOut |-> <<>>]
        /\ outPipe = DropFirst(text, k)
        /\ errPipe = errs
        /\ outQ = IF k = 0 THEN <<>> ELSE <<SubSeq(text, 1, k)>>
        /\ errQ = <<>>
        /\ order = IF k = 0 THEN <<>> ELSE <<"out">>
        /\ unitsLeft = 0
        /\ sentOut = text
        /\ sentErr = errs
        /\ events = IfVerbose(r.magics, "magics", 0) \o IfVerbose(r.magics, "tmpdir", 0)
                        \o IfVerbose(r.magics, "compile", 0)
        /\ exc = "none"
        /\ outcome = NoOutcome

FlushNext ==
    \/ \E c \in ExitCodes : ChildExit(c)
    \/ OutReaderStep
    \/ ErrReaderStep
    \/ Poll("compile")
    \/ FlushErrGet
    \/ FlushOutQsize
    \/ FlushOutGet
    \/ \E fails \in BOOLEAN, line \in InputLines, piped \in BOOLEAN :
           FlushInput(fails, line, piped)

SpecFlush == FlushInit /\ [][FlushNext]_vars

\* The positions of t that a marker of t covers.
Covered(t) ==
    {i \in 1..Len(t) : \E j \in 1..Len(t) : MarkerAt(t, j) /\ i >= j /\ i < j + Len(inputRequest)}

\* How many markers t holds.
CountMarkers(t) == Cardinality({j \in 1..Len(t) : MarkerAt(t, j)})

\* The text of t before, between and after its markers.
OutsideMarkers(t) ==
    LET idx == (1..Len(t)) \ Covered(t)
        nth(k) == CHOOSE i \in idx : Cardinality({j \in idx : j <= i}) = k
    IN  [k \in 1..Cardinality(idx) |-> t[nth(k)]]

\* The events of the step that write or try to write to the subprocess's
\* input stream.
StdinEvents(evs) == SelectSeq(evs, LAMBDA e : e.ch = "stdin")

\* C18: a flush call makes at most one write to the subprocess's input
\* stream.  When the stdout contents one flush drained hold several markers,
\* the text outside the markers goes out in a single stdout emission, if
\* there is any, before the first input request; the write ends the flush,
\* and it is the write of the one line read.
C18_OneWritePerFlush ==
    [][/\ (fpc = "out_get" /\ fpc' = "input" /\ CountMarkers(fl'.res) > 1) =>
              NewEvents = (IF OutsideMarkers(fl'.res) = <<>> THEN <<>>
                           ELSE <<ToStdout(OutsideMarkers(fl'.res))>>)
       /\ StdinEvents(NewEvents) # <<>> =>
              /\ fpc = "input" /\ fpc' = "none"
              /\ Len(StdinEvents(NewEvents)) = 1
              /\ NewEvents[1] = InputRequested
              /\ \E line \in InputLines \ {<<>>} :
                     NewEvents[2] \in {StdinWrite(InputLine(line)),
                                       StdinWriteFailed(InputLine(line))}
       /\ (fpc = "input" /\ fpc' = "none" /\ exc' = exc) =>
              /\ Len(StdinEvents(NewEvents)) = 1
              /\ NewEvents[Len(NewEvents)].kind = "write"
       /\ (fpc = "input" /\ fpc' = "input") =>
              (StdinEvents(NewEvents) = <<>> /\ fl'.res = fl.res)
      ]_vars

\* C18's case: one flush drained "a", the marker, "a" and the marker,
\* forwarded "aa" in one emission, requested a line and wrote "42\n", once.
C18_Witness ==
    /\ fpc = "none"
    /\ fl.res = <<"a">> \o inputRequest \o <<"a">> \o inputRequest
    /\ SubSeq(events, Len(events) - 2, Len(events)) =
           <<ToStdout(<<"a", "a">>), InputRequested, StdinWrite(<<"42", "\n">>)>>
    /\ Len(StdinEvents(events)) = 1

\* The stage whose subprocess poll() found exited with code 0 is in its
\* final flush or at the test of the exit code.
ExitedWithZero(stage) ==
    /\ pc \in {stage \o "_final", stage \o "_check"}
    /\ proc.stage = stage
    /\ proc.polled
    /\ proc.returncode = 0

\* C19: once the compile subprocess has exited with code 0 the submission
\* goes on to spawn the link stage, and once the link subprocess has exited
\* with code 0 it goes on to the execute stage, whatever the final flush
\* finds queued.
C19_ZeroExitProceeds ==
    [][/\ ExitedWithZero("compile") =>
              pc' \in {"compile_final", "compile_check", "link_spawn"}
       /\ ExitedWithZero("link") =>
              pc' \in {"link_final", "link_check", "execute"}
      ]_vars

(***************************************************************************)
(* Termination.  The foreground thread runs do_execute from the call to    *)
(* the return, and the two reader threads run beside it: each of them gets *)
(* its turn.  Assumed of the environment: a subprocess that runs exits,    *)
(* and a request for input gets a line that is not empty.                  *)
(***************************************************************************)

\* The steps of the foreground thread after the parser's that wait for
\* nobody.
ForegroundStep ==
    \/ \E ok \in BOOLEAN : Mkdtemp(ok)
    \/ \E ok \in BOOLEAN : WriteSource(ok)
    \/ \E stage \in {"compile", "link"}, ok \in BOOLEAN, script \in OutScripts :
           Spawn(stage, ok, script)
    \/ \E stage \in {"compile", "link"} : Poll(stage)
    \/ FlushErrGet
    \/ FlushOutQsize
    \/ FlushOutGet
    \/ \E stage \in {"compile", "link"} : CheckExit(stage)
    \/ \E ok \in BOOLEAN, output \in RunOutputs, c \in ExitCodes : Execute(ok, output, c)
    \/ Rmtree
    \/ Rmdir
    \/ Handler

\* The front end answers the request with a line that is not empty.
InputAnswered ==
    \E line \in InputLines \ {<<>>}, piped \in BOOLEAN : FlushInput(FALSE, line, piped)

\* The parser's step is enabled exactly while pc = "filter", every step of it
\* leaves that place and no other step does: weak fairness of FilterStep is
\* that the foreground is again and again elsewhere.
Fairness ==
    /\ []<>(pc # "filter")
    /\ WF_vars(ForegroundStep)
    /\ WF_vars(OutReaderStep)
    /\ WF_vars(ErrReaderStep)
    /\ WF_vars(\E c \in ExitCodes : ChildExit(c))
    /\ WF_vars(InputAnswered)

SpecFair == Init /\ [][Next]_vars /\ Fairness

\* The poll loop of the stage runs on a subprocess that has exited.
LoopOnExited(stage) ==
    /\ pc \in {stage \o "_poll", stage \o "_flush"}
    /\ proc.stage = stage
    /\ ~proc.alive

\* C20: every submission eventually returns its outcome record, and the
\* poll loop of a stage ends once the stage's subprocess has exited.
C20_SubmissionReturns ==
    /\ (pc \notin {"idle", "returned"}) ~> (pc = "returned" /\ outcome = OkOutcome)
    /\ \A stage \in {"compile", "link"} :
           LoopOnExited(stage) ~> (pc \notin {stage \o "_poll", stage \o "_flush"})

\* C20's case: a submission returned after both poll loops ended on exited
\* subprocesses and an input request was answered.
C20_Witness ==
    /\ pc = "returned"
    /\ outcome = OkOutcome
    /\ Len(spawns) = 2
    /\ \A i \in 1..2 : spawns[i].exited
    /\ \E i \in 1..Len(events) : events[i].kind = "write"

====
